---- MODULE Spec2Model ----
(***************************************************************************)
(* A model of GenerateTranslationInfo.py, the generator of the CMCL        *)
(* builtin translation tables.                                             *)
(*                                                                         *)
(* A Python string is modelled as a sequence of tokens.  A token is either *)
(* the line break NL or a piece of text with no line break in it, so that  *)
(* string concatenation is \o, str.join is StrJoin and the blank-line      *)
(* separator "\n\n" is the two tokens <<NL, NL>>.  A JSON object (an        *)
(* insertion-ordered dict) is a sequence of [Key, Value] entries with      *)
(* distinct keys.                                                          *)
(***************************************************************************)
EXTENDS Integers, Sequences, FiniteSets, TLC

VARIABLES
  whole_desc,   \* the parsed JSON description
  pc,           \* position of the script
  examined,     \* keys of the builtins validate_description has examined
  error,        \* the exception that ended the run, "none" if none
  message,      \* the text of that exception
  fragments,    \* get_generated_file: the fragments generated so far
  decls,        \* generate_builtin_descriptions: the decls generated so far
  output_str,   \* the text get_generated_file returned
  opened,       \* TRUE once the output path was opened for writing
  output_file   \* the content of the output path

vars == <<whole_desc, pc, examined, error, message, fragments, decls,
          output_str, opened, output_file>>

-----------------------------------------------------------------------------
(* Bounds and input alphabets *)

MaxOperands == 2

BuiltinKeys == {"Add", "Nop"}

NameOfKey == [k \in BuiltinKeys |-> IF k = "Add" THEN "add" ELSE "nop"]

OperandDescs ==
  { [Name |-> "DST", Kind |-> "VectorOut"],
    [Name |-> "SRC", Kind |-> "VectorIn"],
    [Name |-> "IMM", Kind |-> "Scalar"] }

HelperChoices ==
  { << [Key |-> "OperandKind", Value |-> <<"VectorIn", "VectorOut", "Scalar">>] >>,
    << [Key |-> "OperandKind", Value |-> <<"VectorIn", "VectorOut">>] >>,
    << [Key |-> "Rounding", Value |-> <<"RTE", "RTZ">>],
       [Key |-> "OperandKind", Value |-> <<"VectorOut", "VectorIn">>] >>,
    << [Key |-> "OperandKind", Value |-> << >>] >>,
    << [Key |-> "Rounding", Value |-> <<"RTE", "RTZ">>] >>,
    << >> }

\* The content of the output path before the run.
PreviousContent == <<"// previous content">>

-----------------------------------------------------------------------------
(* Strings and dicts *)

NL == "\n"

Range(s) == {s[i] : i \in 1..Len(s)}

SeqsUpTo(S, n) == UNION {[1..k -> S] : k \in 0..n}

Injective(s) == \A i, j \in 1..Len(s) : s[i] = s[j] => i = j

\* sep.join(texts)
RECURSIVE StrJoin(_, _)
StrJoin(sep, texts) ==
  IF texts = << >> THEN << >>
  ELSE IF Len(texts) = 1 THEN texts[1]
  ELSE texts[1] \o sep \o StrJoin(sep, Tail(texts))

\* key in d
HasKey(d, key) == \E i \in 1..Len(d) : d[i].Key = key

\* d[key]
Lookup(d, key) == d[CHOOSE i \in 1..Len(d) : d[i].Key = key].Value

\* d.keys()
Keys(d) == [i \in 1..Len(d) |-> d[i].Key]

\* What a call does: it returns a text or raises an exception.
Return(text) == [err |-> "none", text |-> text, msg |-> << >>]
Raise(kind, msg) == [err |-> kind, text |-> << >>, msg |-> msg]

-----------------------------------------------------------------------------
(* Module constants *)

OUTPUT_HEADER ==
  <<"// AUTOGENERATED FILE, DO NOT EDIT!", NL,
    "// Generated by GenerateTranslationCode.py script.">>

INTERVAL_BETWEEN_DECLS == <<NL, NL>>

BUILTIN_PREFIX == "__cm_cl_"

OPERAND_KIND == "OperandKind"

OPERAND_NAME == "Operand"

-----------------------------------------------------------------------------
(* The generators *)

generate_enum(name, values) ==
  <<"namespace ", name, " {", NL, "enum Enum {", NL>>
  \o StrJoin(<<",", NL>>, [i \in 1..Len(values) |-> <<"  ", values[i]>>])
  \o <<NL, "};", NL, "} // namespace ", name>>

generate_array(c_type, name, values) ==
  IF values = << >>
  THEN Raise("AssertionError", <<"cannot generate an empty array">>)
  ELSE Return(<<"constexpr ", c_type, " ", name, "[] = {", NL>>
              \o StrJoin(<<",", NL>>,
                         [i \in 1..Len(values) |-> <<"  ", values[i]>>])
              \o <<NL, "};">>)

generate_helper_enums(helper_structures) ==
  StrJoin(INTERVAL_BETWEEN_DECLS,
          [i \in 1..Len(helper_structures) |->
             generate_enum(helper_structures[i].Key,
                           helper_structures[i].Value)])

\* validate_builtin_desc looking at the first operand only.
validate_first_operand(builtin_name, desc, helper_structures) ==
  IF desc.Operands = << >> THEN Return(<< >>)
  ELSE IF ~HasKey(helper_structures, OPERAND_KIND)
  THEN Raise("KeyError", <<"'", OPERAND_KIND, "'">>)
  ELSE IF desc.Operands[1].Kind
            \in Range(Lookup(helper_structures, OPERAND_KIND))
  THEN Return(<< >>)
  ELSE Raise("RuntimeError",
             <<"Some of ", builtin_name,
               " operand kinds is illegal because it's not ",
               "presented in OperandKind list">>)

\* validate_builtin_desc with any() in the place of all().
validate_any_operand(builtin_name, desc, helper_structures) ==
  IF desc.Operands = << >> THEN Return(<< >>)
  ELSE IF ~HasKey(helper_structures, OPERAND_KIND)
  THEN Raise("KeyError", <<"'", OPERAND_KIND, "'">>)
  ELSE IF \E i \in 1..Len(desc.Operands) :
            desc.Operands[i].Kind
              \in Range(Lookup(helper_structures, OPERAND_KIND))
  THEN Return(<< >>)
  ELSE Raise("RuntimeError",
             <<"Some of ", builtin_name,
               " operand kinds is illegal because it's not ",
               "presented in OperandKind list">>)

validate_builtin_desc(builtin_name, desc, helper_structures) ==
  IF desc.Operands = << >> THEN Return(<< >>)
  ELSE IF ~HasKey(helper_structures, OPERAND_KIND)
  THEN Raise("KeyError", <<"'", OPERAND_KIND, "'">>)
  ELSE IF \A i \in 1..Len(desc.Operands) :
            desc.Operands[i].Kind
              \in Range(Lookup(helper_structures, OPERAND_KIND))
  THEN Return(<< >>)
  ELSE Raise("RuntimeError",
             <<"Some of ", builtin_name,
               " operand kinds is illegal because it's not ",
               "presented in OperandKind list">>)

\* append_size putting Size at the front.
prepend_size(lst) == <<"Size">> \o lst

append_size(lst) == lst \o <<"Size">>

\* generate_builtin_names_array taking the key for the Name.
generate_builtin_names_from_keys(builtin_descs) ==
  generate_array("const char*", "BuiltinNames",
                 [i \in 1..Len(builtin_descs) |->
                    "\"" \o BUILTIN_PREFIX \o builtin_descs[i].Key \o "\""])

generate_builtin_names_array(builtin_descs) ==
  generate_array("const char*", "BuiltinNames",
                 [i \in 1..Len(builtin_descs) |->
                    "\"" \o BUILTIN_PREFIX \o builtin_descs[i].Value.Name
                         \o "\""])

generate_operand_names_enum(builtin, desc) ==
  generate_enum(builtin \o OPERAND_NAME,
                append_size([i \in 1..Len(desc.Operands) |->
                               desc.Operands[i].Name]))

generate_operand_names_enums(builtin_descs) ==
  StrJoin(INTERVAL_BETWEEN_DECLS,
          [i \in 1..Len(builtin_descs) |->
             generate_operand_names_enum(builtin_descs[i].Key,
                                         builtin_descs[i].Value)])

generate_operand_size_array(builtin_descs) ==
  generate_array("int", "BuiltinOperandSize",
                 [i \in 1..Len(builtin_descs) |->
                    builtin_descs[i].Key \o OPERAND_NAME \o "::Size"])

\* generate_operand_kinds_array walking the operands backwards.
generate_operand_kinds_reversed(builtin, desc) ==
  generate_array(OPERAND_KIND \o "::Enum", builtin \o OPERAND_KIND,
                 [i \in 1..Len(desc.Operands) |->
                    OPERAND_KIND \o "::"
                      \o desc.Operands[Len(desc.Operands) + 1 - i].Kind])

generate_operand_kinds_array(builtin, desc) ==
  generate_array(OPERAND_KIND \o "::Enum", builtin \o OPERAND_KIND,
                 [i \in 1..Len(desc.Operands) |->
                    OPERAND_KIND \o "::" \o desc.Operands[i].Kind])

\* if desc["Operands"]
HasOperands(item) == item.Value.Operands # << >>

\* the items of builtin_descs that pass the filter, in order
RECURSIVE ItemsWithOperands(_)
ItemsWithOperands(builtin_descs) ==
  IF builtin_descs = << >> THEN << >>
  ELSE (IF HasOperands(builtin_descs[1]) THEN <<builtin_descs[1]>> ELSE << >>)
       \o ItemsWithOperands(Tail(builtin_descs))

generate_operand_kinds_arrays(builtin_descs) ==
  LET with_operands == ItemsWithOperands(builtin_descs)
      arrays == [i \in 1..Len(with_operands) |->
                   generate_operand_kinds_array(with_operands[i].Key,
                                                with_operands[i].Value)]
  IN  IF \E i \in 1..Len(arrays) : arrays[i].err # "none"
      THEN arrays[CHOOSE i \in 1..Len(arrays) :
                    /\ arrays[i].err # "none"
                    /\ \A j \in 1..(i - 1) : arrays[j].err = "none"]
      ELSE Return(StrJoin(INTERVAL_BETWEEN_DECLS,
                          [i \in 1..Len(arrays) |-> arrays[i].text]))

\* get_operand_kinds_array_pointer without the test for operands.
get_operand_kinds_array_name(builtin, desc) == builtin \o OPERAND_KIND

get_operand_kinds_array_pointer(builtin, desc) ==
  IF desc.Operands # << >> THEN builtin \o OPERAND_KIND ELSE "nullptr"

generate_combined_operand_kinds_array(builtin_descs) ==
  generate_array("const " \o OPERAND_KIND \o "::Enum*",
                 "Builtin" \o OPERAND_KIND,
                 [i \in 1..Len(builtin_descs) |->
                    get_operand_kinds_array_pointer(builtin_descs[i].Key,
                                                    builtin_descs[i].Value)])

-----------------------------------------------------------------------------
(* The script *)

Descs == whole_desc.BuiltinDescriptions
Helpers == whole_desc.HelperStructures

\* json.load: the description is any document within the bounds.
Init ==
  /\ \E helper_structures \in HelperChoices,
        keys \in {s \in SeqsUpTo(BuiltinKeys, Cardinality(BuiltinKeys)) :
                    Injective(s)} :
       \E operands \in [1..Len(keys) -> SeqsUpTo(OperandDescs, MaxOperands)] :
         whole_desc =
           [HelperStructures |-> helper_structures,
            BuiltinDescriptions |->
              [i \in 1..Len(keys) |->
                 [Key |-> keys[i],
                  Value |-> [Name |-> NameOfKey[keys[i]],
                             Operands |-> operands[i]]]]]
  /\ pc = "validate_description"
  /\ examined = << >>
  /\ error = "none"
  /\ message = << >>
  /\ fragments = << >>
  /\ decls = << >>
  /\ output_str = << >>
  /\ opened = FALSE
  /\ output_file = PreviousContent

\* An uncaught exception ends the script.
Fail(r) ==
  /\ pc' = "failed"
  /\ error' = r.err
  /\ message' = r.msg

\* validate_description catching the exception and going on.
ValidateBuiltinTolerant ==
  /\ pc = "validate_description"
  /\ Len(examined) < Len(whole_desc.BuiltinDescriptions)
  /\ examined' = Append(examined,
                        whole_desc.BuiltinDescriptions[Len(examined) + 1].Key)
  /\ UNCHANGED <<whole_desc, pc, error, message, fragments, decls,
                 output_str, opened, output_file>>

\* One iteration of validate_description's loop.
ValidateBuiltin ==
  /\ pc = "validate_description"
  /\ Len(examined) < Len(Descs)
  /\ LET item == Descs[Len(examined) + 1]
         r == validate_builtin_desc(item.Key, item.Value, Helpers)
     IN  /\ examined' = Append(examined, item.Key)
         /\ IF r.err # "none" THEN Fail(r)
            ELSE UNCHANGED <<pc, error, message>>
  /\ UNCHANGED <<whole_desc, fragments, decls, output_str, opened, output_file>>

\* validate_description returns; the first two fragments are built.
GenerateHelperEnums ==
  /\ pc = "validate_description"
  /\ Len(examined) = Len(Descs)
  /\ fragments' = <<OUTPUT_HEADER, generate_helper_enums(Helpers)>>
  /\ pc' = "BuiltinID"
  /\ UNCHANGED <<whole_desc, examined, error, message, decls, output_str,
                 opened, output_file>>

\* A decl of generate_builtin_descriptions that is a call of generate_array.
AppendDecl(at, r, next) ==
  /\ pc = at
  /\ IF r.err # "none"
     THEN Fail(r) /\ UNCHANGED decls
     ELSE /\ decls' = Append(decls, r.text)
          /\ pc' = next
          /\ UNCHANGED <<error, message>>
  /\ UNCHANGED <<whole_desc, examined, fragments, output_str, opened,
                 output_file>>

GenerateBuiltinID ==
  AppendDecl("BuiltinID",
             Return(generate_enum("BuiltinID", append_size(Keys(Descs)))),
             "BuiltinNames")

GenerateBuiltinNames ==
  AppendDecl("BuiltinNames", generate_builtin_names_array(Descs),
             "OperandNames")

GenerateOperandNames ==
  AppendDecl("OperandNames", Return(generate_operand_names_enums(Descs)),
             "OperandSize")

GenerateOperandSize ==
  AppendDecl("OperandSize", generate_operand_size_array(Descs),
             "OperandKinds")

GenerateOperandKinds ==
  AppendDecl("OperandKinds", generate_operand_kinds_arrays(Descs),
             "CombinedOperandKinds")

GenerateCombinedOperandKinds ==
  AppendDecl("CombinedOperandKinds",
             generate_combined_operand_kinds_array(Descs),
             "join_decls")

\* generate_builtin_descriptions returns the joined decls.
generate_builtin_descriptions ==
  /\ pc = "join_decls"
  /\ fragments' = Append(fragments, StrJoin(INTERVAL_BETWEEN_DECLS, decls))
  /\ pc' = "join_fragments"
  /\ UNCHANGED <<whole_desc, examined, error, message, decls, output_str,
                 opened, output_file>>

\* get_generated_file returns the joined fragments.
get_generated_file ==
  /\ pc = "join_fragments"
  /\ output_str' = StrJoin(INTERVAL_BETWEEN_DECLS, fragments)
  /\ pc' = "open"
  /\ UNCHANGED <<whole_desc, examined, error, message, fragments, decls,
                 opened, output_file>>

\* open(args.output, "w") truncates the file.
OpenOutput ==
  /\ pc = "open"
  /\ opened' = TRUE
  /\ output_file' = << >>
  /\ pc' = "write"
  /\ UNCHANGED <<whole_desc, examined, error, message, fragments, decls,
                 output_str>>

WriteOutput ==
  /\ pc = "write"
  /\ output_file' = output_file \o output_str
  /\ pc' = "done"
  /\ UNCHANGED <<whole_desc, examined, error, message, fragments, decls,
                 output_str, opened>>

Next ==
  \/ ValidateBuiltin
  \/ GenerateHelperEnums
  \/ GenerateBuiltinID
  \/ GenerateBuiltinNames
  \/ GenerateOperandNames
  \/ GenerateOperandSize
  \/ GenerateOperandKinds
  \/ GenerateCombinedOperandKinds
  \/ generate_builtin_descriptions
  \/ get_generated_file
  \/ OpenOutput
  \/ WriteOutput

Spec == Init /\ [][Next]_vars

-----------------------------------------------------------------------------
(* Reading the generated text back, as the C++ compiler that includes it   *)
(* would: the text is split into lines, a declaration is found by its      *)
(* header line and its values are the indented lines up to the closing     *)
(* brace.                                                                  *)

RECURSIVE SplitLines(_)
SplitLines(text) ==
  IF \A i \in 1..Len(text) : text[i] # NL THEN <<text>>
  ELSE LET k == CHOOSE i \in 1..Len(text) :
                  text[i] = NL /\ \A j \in 1..(i - 1) : text[j] # NL
       IN  <<SubSeq(text, 1, k - 1)>>
           \o SplitLines(SubSeq(text, k + 1, Len(text)))

IsEnumHeader(line) == Len(line) = 3 /\ line[1] = "namespace " /\ line[3] = " {"

IsArrayHeader(line) ==
  Len(line) = 5 /\ line[1] = "constexpr " /\ line[3] = " " /\ line[5] = "[] = {"

IsHeader(line) == IsEnumHeader(line) \/ IsArrayHeader(line)

DeclName(line) == IF IsEnumHeader(line) THEN line[2] ELSE line[4]

\* The index of the first line "};" after line i.
CloseAfter(lines, i) ==
  CHOOSE j \in (i + 1)..Len(lines) :
    lines[j] = <<"};">> /\ \A k \in (i + 1)..(j - 1) : lines[k] # <<"};">>

\* The value lines of the declaration whose header is line i.
BodyOf(lines, i) ==
  LET first == IF IsEnumHeader(lines[i]) THEN i + 2 ELSE i + 1
  IN  SubSeq(lines, first, CloseAfter(lines, i) - 1)

\* "  v," on every line but the last, "  v" on the last.
WellFormedBody(body) ==
  \/ body = << << >> >>
  \/ /\ body # << >>
     /\ \A k \in 1..Len(body) :
          /\ body[k][1] = "  "
          /\ IF k < Len(body)
             THEN Len(body[k]) = 3 /\ body[k][3] = ","
             ELSE Len(body[k]) = 2

ValuesOf(body) ==
  IF body = << << >> >> THEN << >> ELSE [k \in 1..Len(body) |-> body[k][2]]

HeadersNamed(lines, IsKind(_), name) ==
  {i \in 1..Len(lines) : IsKind(lines[i]) /\ DeclName(lines[i]) = name}

HasEnum(text, name) == HeadersNamed(SplitLines(text), IsEnumHeader, name) # {}

HasArray(text, name) == HeadersNamed(SplitLines(text), IsArrayHeader, name) # {}

DeclValues(text, IsKind(_), name) ==
  LET lines == SplitLines(text)
      i == CHOOSE h \in HeadersNamed(lines, IsKind, name) : TRUE
  IN  ValuesOf(BodyOf(lines, i))

\* The enumerators of the enumeration `name`, in order.
EnumValues(text, name) == DeclValues(text, IsEnumHeader, name)

\* The elements of the array `name`, in order.
ArrayValues(text, name) == DeclValues(text, IsArrayHeader, name)

\* Every declaration of the text is declared once and is well formed.
WellFormedDecls(text) ==
  LET lines == SplitLines(text)
  IN  \A i \in 1..Len(lines) :
        IsHeader(lines[i]) =>
          /\ \A j \in 1..Len(lines) :
               IsHeader(lines[j]) /\ DeclName(lines[j]) = DeclName(lines[i])
                 => j = i
          /\ \E j \in (i + 1)..Len(lines) : lines[j] = <<"};">>
          /\ WellFormedBody(BodyOf(lines, i))
          /\ IsEnumHeader(lines[i]) =>
               /\ lines[i + 1] = <<"enum Enum {">>
               /\ lines[CloseAfter(lines, i) + 1]
                    = <<"} // namespace ", DeclName(lines[i])>>

\* The names of the declarations of the text, in the order of the text.
RECURSIVE NamesIn(_)
NamesIn(lines) ==
  IF lines = << >> THEN << >>
  ELSE (IF IsHeader(lines[1]) THEN <<DeclName(lines[1])>> ELSE << >>)
       \o NamesIn(Tail(lines))

DeclNames(text) == NamesIn(SplitLines(text))

-----------------------------------------------------------------------------
(* What the description says *)

N == Len(Descs)

KeyAt(i) == Descs[i].Key

OperandsAt(i) == Descs[i].Value.Operands

\* The declared operand kinds; none are declared without the OperandKind key.
DeclaredKinds ==
  IF HasKey(Helpers, "OperandKind")
  THEN Range(Lookup(Helpers, "OperandKind")) ELSE {}

HasIllegalKind(i) ==
  \E j \in 1..Len(OperandsAt(i)) : OperandsAt(i)[j].Kind \notin DeclaredKinds

SomeIllegalKind == \E i \in 1..N : HasIllegalKind(i)

FirstIllegal ==
  CHOOSE i \in 1..N :
    HasIllegalKind(i) /\ \A k \in 1..(i - 1) : ~HasIllegalKind(k)

Generated == pc = "done"

-----------------------------------------------------------------------------
(* C1 *)

\* C1: when some operand's Kind is not among the declared operand kinds the
\* output path is never opened and keeps its previous content; and the
\* output path is opened only after validation examined every builtin, no
\* exception was raised, and all six decls and all three fragments were
\* generated and joined into the text to write.
C1_NoWriteOnValidationFailure ==
  /\ SomeIllegalKind => ~opened /\ output_file = PreviousContent
  /\ pc = "failed" => ~opened /\ output_file = PreviousContent
  /\ opened =>
       /\ error = "none"
       /\ examined = Keys(Descs)
       /\ Len(decls) = 6
       /\ Len(fragments) = 3
       /\ output_str = StrJoin(INTERVAL_BETWEEN_DECLS, fragments)
       /\ pc \in {"write", "done"}
  /\ output_file # PreviousContent => opened

\* C1 witness: validation of a later builtin failed on an illegal kind and
\* the output path still holds its previous content.
C1_Witness ==
  /\ pc = "failed"
  /\ error = "RuntimeError"
  /\ Len(examined) = 2
  /\ ~opened
  /\ output_file = PreviousContent

-----------------------------------------------------------------------------
(* C2 *)

\* C2: in the generated text the array <Key>OperandKind exists if and only
\* if the builtin has operands, and the builtin's entry of the combined
\* BuiltinOperandKind table is the name of that array when it has operands
\* and nullptr when it has none; an entry other than nullptr always names an
\* array of the text.
C2_KindArrayIffOperands ==
  Generated =>
    /\ WellFormedDecls(output_file)
    /\ HasArray(output_file, "BuiltinOperandKind")
    /\ LET table == ArrayValues(output_file, "BuiltinOperandKind")
       IN  /\ Len(table) = N
           /\ \A i \in 1..N :
                /\ HasArray(output_file, KeyAt(i) \o "OperandKind")
                     <=> OperandsAt(i) # << >>
                /\ table[i] = IF OperandsAt(i) # << >>
                              THEN KeyAt(i) \o "OperandKind" ELSE "nullptr"
                /\ table[i] # "nullptr" => HasArray(output_file, table[i])

\* C2 witness: a text was generated for a builtin with operands and a
\* builtin without.
C2_Witness ==
  /\ Generated
  /\ \E i, k \in 1..N : OperandsAt(i) = << >> /\ OperandsAt(k) # << >>

-----------------------------------------------------------------------------
(* C3 *)

\* C3: the enumeration <Key>Operand lists the operand names in declared
\* order followed by Size, so Size is at zero-based position k for k
\* operands; the builtin's entry of BuiltinOperandSize is the reference
\* <Key>Operand::Size; and BuiltinID lists the builtin keys in order
\* followed by Size, at zero-based position N.
C3_SizeSentinel ==
  Generated =>
    /\ WellFormedDecls(output_file)
    /\ HasEnum(output_file, "BuiltinID")
    /\ HasArray(output_file, "BuiltinOperandSize")
    /\ LET ids == EnumValues(output_file, "BuiltinID")
           sizes == ArrayValues(output_file, "BuiltinOperandSize")
       IN  /\ ids = Keys(Descs) \o <<"Size">>
           /\ ids[N + 1] = "Size"
           /\ Len(sizes) = N
           /\ \A i \in 1..N :
                /\ HasEnum(output_file, KeyAt(i) \o "Operand")
                /\ LET names == EnumValues(output_file, KeyAt(i) \o "Operand")
                       k == Len(OperandsAt(i))
                   IN  /\ Len(names) = k + 1
                       /\ \A j \in 1..k : names[j] = OperandsAt(i)[j].Name
                       /\ names[k + 1] = "Size"
                /\ sizes[i] = KeyAt(i) \o "Operand::Size"

\* C3 witness: a text was generated for a builtin with two operands of
\* different names and a builtin with none.
C3_Witness ==
  /\ Generated
  /\ \E i, k \in 1..N :
       /\ OperandsAt(i) = << >>
       /\ Len(OperandsAt(k)) >= 2
       /\ OperandsAt(k)[1].Name # OperandsAt(k)[2].Name

-----------------------------------------------------------------------------
(* C4 *)

\* the names of seq that are in the set S, in the order of seq
RECURSIVE Restrict(_, _)
Restrict(seq, S) ==
  IF seq = << >> THEN << >>
  ELSE (IF seq[1] \in S THEN <<seq[1]>> ELSE << >>) \o Restrict(Tail(seq), S)

\* C4: in the generated text, position i of BuiltinID is the i-th key of
\* BuiltinDescriptions, position i of BuiltinNames is the quoted prefixed Name
\* of that builtin, position i of BuiltinOperandSize and of BuiltinOperandKind
\* refer to that builtin, the tables have exactly N entries, and the
\* per-builtin enumerations and the emitted per-builtin kind arrays are
\* declared in key order.
C4_OrderPreserved ==
  Generated =>
    /\ WellFormedDecls(output_file)
    /\ HasEnum(output_file, "BuiltinID")
    /\ HasArray(output_file, "BuiltinNames")
    /\ HasArray(output_file, "BuiltinOperandSize")
    /\ HasArray(output_file, "BuiltinOperandKind")
    /\ LET ids == EnumValues(output_file, "BuiltinID")
           names == ArrayValues(output_file, "BuiltinNames")
           sizes == ArrayValues(output_file, "BuiltinOperandSize")
           kinds == ArrayValues(output_file, "BuiltinOperandKind")
           declared == DeclNames(output_file)
       IN  /\ Len(ids) = N + 1
           /\ Len(names) = N
           /\ Len(sizes) = N
           /\ Len(kinds) = N
           /\ \A i \in 1..N :
                /\ ids[i] = KeyAt(i)
                /\ names[i] = "\"__cm_cl_" \o Descs[i].Value.Name \o "\""
                /\ sizes[i] = KeyAt(i) \o "Operand::Size"
                /\ kinds[i] \in {KeyAt(i) \o "OperandKind", "nullptr"}
           /\ Restrict(declared, {k \o "Operand" : k \in BuiltinKeys})
                = [i \in 1..N |-> KeyAt(i) \o "Operand"]
           /\ LET emitted ==
                    Restrict(Keys(Descs),
                             {KeyAt(i) : i \in {k \in 1..N : OperandsAt(k) # << >>}})
              IN  Restrict(declared, {k \o "OperandKind" : k \in BuiltinKeys})
                    = [i \in 1..Len(emitted) |-> emitted[i] \o "OperandKind"]

\* C4 witness: a text was generated for two builtins that both have
\* operands, the key that sorts last coming first.
C4_Witness ==
  /\ Generated
  /\ N = 2
  /\ KeyAt(1) = "Nop"
  /\ OperandsAt(1) # << >>
  /\ OperandsAt(2) # << >>

-----------------------------------------------------------------------------
(* C5 *)

\* C5: for every builtin with operands, its entry of the combined
\* BuiltinOperandKind table names an array of the generated text that has as
\* many elements as the builtin has operands, the j-th being
\* OperandKind::<Kind of the j-th operand>.
C5_TwoLevelLookup ==
  Generated =>
    /\ WellFormedDecls(output_file)
    /\ \A i \in 1..N :
         OperandsAt(i) # << >> =>
           LET row == ArrayValues(output_file, "BuiltinOperandKind")[i]
           IN  /\ row = KeyAt(i) \o "OperandKind"
               /\ HasArray(output_file, row)
               /\ Len(ArrayValues(output_file, row)) = Len(OperandsAt(i))
               /\ \A j \in 1..Len(OperandsAt(i)) :
                    ArrayValues(output_file, row)[j]
                      = "OperandKind::" \o OperandsAt(i)[j].Kind

\* C5 witness: a text was generated for a second builtin whose two operands
\* have different kinds.
C5_Witness ==
  /\ Generated
  /\ N = 2
  /\ Len(OperandsAt(2)) >= 2
  /\ OperandsAt(2)[1].Kind # OperandsAt(2)[2].Kind

-----------------------------------------------------------------------------
(* C6 *)

\* The lines that open an array of OperandKind::Enum elements.
KindArrayHeaders(lines) ==
  {i \in 1..Len(lines) :
     IsArrayHeader(lines[i]) /\ lines[i][2] = "OperandKind::Enum"}

\* C6: every element of every array of OperandKind::Enum in the generated
\* text is OperandKind::X for an enumerator X of the OperandKind enumeration
\* of the same text.
C6_KindsDeclared ==
  Generated =>
    LET lines == SplitLines(output_file)
    IN  \A h \in KindArrayHeaders(lines) :
          /\ HasEnum(output_file, "OperandKind")
          /\ \A v \in Range(ValuesOf(BodyOf(lines, h))) :
               v \in {"OperandKind::" \o x :
                        x \in Range(EnumValues(output_file, "OperandKind"))}

\* C6 witness: a text with a kind array was generated from a description
\* that declares further helper structures and does not declare every kind.
C6_Witness ==
  /\ Generated
  /\ KindArrayHeaders(SplitLines(output_file)) # {}
  /\ Len(Helpers) = 2
  /\ "Scalar" \notin DeclaredKinds

-----------------------------------------------------------------------------
(* C7 *)

\* The last line of a declaration: the namespace's closing line for an
\* enumeration, the closing brace for an array.
EndsDecl(lines, i) ==
  \/ Len(lines[i]) = 2 /\ lines[i][1] = "} // namespace "
  \/ /\ lines[i] = <<"};">>
     /\ ~(i < Len(lines) /\ Len(lines[i + 1]) = 2
          /\ lines[i + 1][1] = "} // namespace ")

\* The declarations in the order get_generated_file lists its fragments.
FixedOrder ==
  Keys(Helpers)
  \o <<"BuiltinID", "BuiltinNames">>
  \o [i \in 1..N |-> KeyAt(i) \o "Operand"]
  \o <<"BuiltinOperandSize">>
  \o Restrict([i \in 1..N |-> KeyAt(i) \o "OperandKind"],
              {KeyAt(i) \o "OperandKind" :
                 i \in {k \in 1..N : OperandsAt(k) # << >>}})
  \o <<"BuiltinOperandKind">>

\* C7: the generated text is the header followed by the declarations in the
\* fixed order, and the header and every declaration but the last are
\* followed by exactly one separator, that is by one blank line and then the
\* next declaration.
C7_FixedOrderOneSeparator ==
  Generated =>
    LET lines == SplitLines(output_file)
    IN  /\ SubSeq(output_file, 1, Len(OUTPUT_HEADER)) = OUTPUT_HEADER
        /\ DeclNames(output_file) = FixedOrder
        /\ lines[3] = << >> /\ IsHeader(lines[4])
        /\ EndsDecl(lines, Len(lines))
        /\ \A i \in 1..(Len(lines) - 1) :
             EndsDecl(lines, i) => lines[i + 1] = << >> /\ IsHeader(lines[i + 2])

-----------------------------------------------------------------------------
(* C8 *)

\* C8: no run ends with the assertion of generate_array, "cannot generate an
\* empty array".
C8_NoEmptyArray == error # "AssertionError"

-----------------------------------------------------------------------------
(* C9 *)

\* C9: validation raises if and only if some operand's Kind is not among the
\* declared kinds; when it raises, the builtins examined are those up to the
\* first builtin with such an operand and no other, and the error that
\* validate_builtin_desc raises names that builtin and no other.
C9_RaisesOnFirstIllegal ==
  /\ error \in {"RuntimeError", "KeyError"} =>
       /\ SomeIllegalKind
       /\ examined = SubSeq(Keys(Descs), 1, FirstIllegal)
  /\ error = "RuntimeError" =>
       Range(message) \cap BuiltinKeys = {KeyAt(FirstIllegal)}
  /\ pc \notin {"validate_description", "failed"} => ~SomeIllegalKind
  /\ error = "AssertionError" => ~SomeIllegalKind
  /\ pc = "validate_description" =>
       \A i \in 1..Len(examined) : ~HasIllegalKind(i)

\* C9 witness: validation raised on the first of two builtins, both with an
\* illegal kind, and the second was not examined.
C9_Witness ==
  /\ error = "RuntimeError"
  /\ N = 2
  /\ HasIllegalKind(1)
  /\ HasIllegalKind(2)
  /\ examined = <<KeyAt(1)>>
  /\ KeyAt(1) \in Range(message)

-----------------------------------------------------------------------------
(* C10 *)

\* C10: when HelperStructures has no OperandKind key the run fails: the
\* output path is never opened and keeps its previous content.
C10_OperandKindRequired ==
  ~HasKey(Helpers, "OperandKind") =>
    /\ ~opened
    /\ output_file = PreviousContent
    /\ pc # "done"

====
